---- MODULE Spec2Model ----
(***************************************************************************)
(* Duplicate-vertex detection and mesh compaction of                       *)
(* src/MainApplication/Gui/MainWindow.cpp (findDuplicates, lines 612-657,  *)
(* and removeDuplicates, lines 659-696).                                   *)
(*                                                                         *)
(* C++ containers are indexed from 0; they are modelled as functions with  *)
(* domain 0..n-1, so every index expression reads as in the source.        *)
(***************************************************************************)
EXTENDS Integers, FiniteSets, Sequences, TLC

(* ------------------------------------------------------------------------ *)
(* Bounds of the checked instances.                                         *)
(* ------------------------------------------------------------------------ *)

\* A mesh of the model has numVerts + numTri <= MaxSize.
MaxSize == 4

\* A mesh that breaks the invariants of a TriangleMesh has
\* numVerts + numTri <= MaxBadSize.
MaxBadSize == 3

\* A mesh whose parallel loops are followed one iteration at a time has
\* numVerts + numTri <= MaxParSize.
MaxParSize == 3

\* The render object manager holds at most MaxObjs render objects.
MaxObjs == 2

\* The times of the engine and of the timeline are 0 .. MaxTime.
MaxTime == 1

(* ------------------------------------------------------------------------ *)
(* 0-based vectors (std::vector, Vector3Array).                             *)
(* ------------------------------------------------------------------------ *)

Range0(n) == 0 .. (n - 1)

Size(v) == Cardinality(DOMAIN v)

Filled(n, x) == [k \in Range0(n) |-> x]

\* The element is put in front of the others instead of behind them.
PushBack_Front(v, x) == [k \in 0 .. Size(v) |-> IF k = 0 THEN x ELSE v[k - 1]]

PushBack(v, x) == [k \in 0 .. Size(v) |-> IF k < Size(v) THEN v[k] ELSE x]

\* Index::Invalid()
Invalid == -1

(* ------------------------------------------------------------------------ *)
(* Scalars.  A Scalar is an IEEE float, kept as <<sign, magnitude>> so that *)
(* +0.0 and -0.0 are two different values that compare equal with ==, as in *)
(* the comparator and in Eigen's operator==.  Coordinates are finite (no    *)
(* NaN): the comparator of the sort is a strict weak ordering only then.    *)
(* ------------------------------------------------------------------------ *)

PosZero == <<0, 0>>
NegZero == <<1, 0>>
One     == <<0, 1>>

FVal(f) == IF f[1] = 1 THEN 0 - f[2] ELSE f[2]

\* a == b on Scalars
FEq(a, b) == FVal(a) = FVal(b)

\* a < b on Scalars
FLt(a, b) == FVal(a) < FVal(b)

\* The vertex positions the input meshes are built from: two positions that
\* differ only in the sign of a zero, and positions that differ from them in
\* x only, in y only and in z only.
PosSet ==
    { <<PosZero, PosZero, PosZero>>,
      <<NegZero, PosZero, PosZero>>,
      <<PosZero, PosZero, One>>,
      <<PosZero, One, PosZero>>,
      <<One, PosZero, PosZero>> }

\* Normals are only copied by the code, never inspected: the normal of input
\* vertex i is a value of its own.
NormalOf(i) == <<"n", i>>

\* A comparison that looks at the x coefficient only.
VecEq_XOnly(p, q) == FEq(p[1], q[1])

\* Eigen's operator== on Vector3, as used at line 647: all coefficients ==.
VecEq(p, q) == FEq(p[1], q[1]) /\ FEq(p[2], q[2]) /\ FEq(p[3], q[3])

(* ------------------------------------------------------------------------ *)
(* State.                                                                   *)
(* ------------------------------------------------------------------------ *)

VARIABLES
    mesh,            \* the TriangleMesh: [vertices, normals, indices]
    orig,            \* the mesh as it was when the current call was entered
    vertices,        \* findDuplicates: the vector of (position, index) pairs
    duplicatesMap,   \* findDuplicates: its output parameter
    hasDuplicates,   \* findDuplicates: its return value
    newIndices,      \* removeDuplicates: old representative -> new index
    uniqueVertices,  \* removeDuplicates: the compacted positions
    uniqueNormals,   \* removeDuplicates: the compacted normals
    vertexMap,       \* removeDuplicates: its output parameter
    pc,              \* the phase removeDuplicates is about to execute
    again,           \* TRUE in a call made on the result of a previous call
    oob              \* TRUE once an access outside a container was executed

\* The parallel loops (#pragma omp parallel for, lines 620, 678 and 690).
VARIABLES
    todo             \* the iterations of the running parallel loop not yet executed

\* MainWindow and what onFrameComplete and the timeline slots work on
\* (lines 698-838).
VARIABLES
    fpc,               \* the place onFrameComplete has reached ("idle": not running)
    m_lockTimeSystem,  \* MainWindow::m_lockTimeSystem
    m_exportMeshes,    \* MainWindow::m_exportMeshes
    timelineTime,      \* m_timeline->getTime()
    engine,            \* RadiumEngine: [time, startTime, endTime, play, forwardBackward]
    app,               \* mainApp and actionPlay: [updateAsked, continuousUpdate, playChecked]
    renderObjects,     \* roMngr->getRenderObjects()
    cur,               \* the render object the export loop is at
    logged,            \* the LOG lines of the current frame: <<render object, kind>>
    mdd_files,         \* the keys of the static map mdd_files
    nullDeref,         \* TRUE once a null Engine::Mesh* was dereferenced
    call               \* the timeline slot that ran last: [slot, arg], or NoCall

frame == <<fpc, m_lockTimeSystem, m_exportMeshes, timelineTime, engine, app,
           renderObjects, cur, logged, mdd_files, nullDeref, call>>

vars == <<mesh, orig, vertices, duplicatesMap, hasDuplicates, newIndices,
          uniqueVertices, uniqueNormals, vertexMap, pc, again, oob, todo, frame>>

(* ------------------------------------------------------------------------ *)
(* findDuplicates, lines 612-657.                                           *)
(* ------------------------------------------------------------------------ *)

\* The pair appended at the first free place, as a push_back would.
PairIter_NextFree(v, m, i) ==
    LET k == CHOOSE k \in DOMAIN v :
                 /\ v[k].second = Invalid
                 /\ \A l \in DOMAIN v : l < k => v[l].second # Invalid
    IN  [v EXCEPT ![k] = [first |-> m.vertices[i], second |-> i]]

\* Line 623, one iteration of the pairing loop.
PairIter(v, m, i) == [v EXCEPT ![i] = [first |-> m.vertices[i], second |-> i]]

RECURSIVE PairLoop(_, _, _, _)
PairLoop(v, m, i, n) ==
    IF i >= n THEN v ELSE PairLoop(PairIter(v, m, i), m, i + 1, n)

\* The comparator with the index tie-break turned round.
Less_DescIndex(a, b) ==
    IF FEq(a.first[1], b.first[1])
    THEN IF FEq(a.first[2], b.first[2])
         THEN IF FEq(a.first[3], b.first[3])
              THEN a.second > b.second
              ELSE FLt(a.first[3], b.first[3])
         ELSE FLt(a.first[2], b.first[2])
    ELSE FLt(a.first[1], b.first[1])

\* The comparator without its z level: positions that differ in z only are
\* ordered by index.
Less_IgnoreZ(a, b) ==
    IF FEq(a.first[1], b.first[1])
    THEN IF FEq(a.first[2], b.first[2])
         THEN a.second < b.second
         ELSE FLt(a.first[2], b.first[2])
    ELSE FLt(a.first[1], b.first[1])

\* Lines 626-638, the comparator handed to std::sort.
Less(a, b) ==
    IF FEq(a.first[1], b.first[1])
    THEN IF FEq(a.first[2], b.first[2])
         THEN IF FEq(a.first[3], b.first[3])
              THEN a.second < b.second
              ELSE FLt(a.first[3], b.first[3])
         ELSE FLt(a.first[2], b.first[2])
    ELSE FLt(a.first[1], b.first[1])

\* std::sort, line 626.  Less is a strict total order on the pairs (their
\* indices differ), so the sorted vector is the same whatever algorithm the
\* library runs; it is computed here by insertion.
InsertAt(s, e) ==
    CHOOSE p \in 0 .. Size(s) :
        /\ \A k \in p .. (Size(s) - 1) : Less(e, s[k])
        /\ p = 0 \/ ~Less(e, s[p - 1])

Insert(s, e) ==
    LET p == InsertAt(s, e)
    IN  [k \in 0 .. Size(s) |->
            IF k < p THEN s[k] ELSE IF k = p THEN e ELSE s[k - 1]]

RECURSIVE SortPrefix(_, _)
SortPrefix(v, n) ==
    IF n = 0 THEN Filled(0, Invalid) ELSE Insert(SortPrefix(v, n - 1), v[n - 1])

Sort(v) == SortPrefix(v, Size(v))

\* The walk copying the previous element's own index instead of the
\* previous element's entry of the map.
WalkStep_RawPrev(st, v, i) ==
    IF VecEq(v[i].first, v[i - 1].first)
    THEN [dm  |-> [st.dm EXCEPT ![v[i].second] = v[i - 1].second],
          has |-> TRUE]
    ELSE [dm  |-> [st.dm EXCEPT ![v[i].second] = v[i].second],
          has |-> st.has]

\* The walk without line 651.
WalkStep_NoFlag(st, v, i) ==
    IF VecEq(v[i].first, v[i - 1].first)
    THEN [dm  |-> [st.dm EXCEPT ![v[i].second] = st.dm[v[i - 1].second]],
          has |-> st.has]
    ELSE [dm  |-> [st.dm EXCEPT ![v[i].second] = v[i].second],
          has |-> st.has]

\* Lines 647-653, one iteration of the walk over the sorted pairs.  st is
\* [dm |-> duplicatesMap, has |-> hasDuplicates].
WalkStep(st, v, i) ==
    IF VecEq(v[i].first, v[i - 1].first)
    THEN [dm  |-> [st.dm EXCEPT ![v[i].second] = st.dm[v[i - 1].second]],
          has |-> TRUE]
    ELSE [dm  |-> [st.dm EXCEPT ![v[i].second] = v[i].second],
          has |-> st.has]

RECURSIVE WalkLoop(_, _, _, _)
WalkLoop(st, v, i, n) ==
    IF i >= n THEN st ELSE WalkLoop(WalkStep(st, v, i), v, i + 1, n)

\* Lines 644-656 on a non-empty vector.
Walk(dm, has, v) ==
    WalkLoop([dm |-> [dm EXCEPT ![v[0].second] = v[0].second], has |-> has],
             v, 1, Size(v))

(* ------------------------------------------------------------------------ *)
(* removeDuplicates, lines 659-696.                                         *)
(* ------------------------------------------------------------------------ *)

\* The scan recording the old index instead of the compacted one.
CompactStep_OldIndex(st, m, dm, i) ==
    IF dm[i] = i
    THEN [ni |-> [st.ni EXCEPT ![i] = i],
          uv |-> PushBack(st.uv, m.vertices[i]),
          un |-> PushBack(st.un, m.normals[i])]
    ELSE st

\* The scan without the test of line 669: every vertex is kept.
CompactStep_KeepAll(st, m, dm, i) ==
    [ni |-> [st.ni EXCEPT ![i] = Size(st.uv)],
     uv |-> PushBack(st.uv, m.vertices[i]),
     un |-> PushBack(st.un, m.normals[i])]

\* The scan with line 673 outside the test: a normal is kept for every vertex.
CompactStep_NormalAlways(st, m, dm, i) ==
    IF dm[i] = i
    THEN [ni |-> [st.ni EXCEPT ![i] = Size(st.uv)],
          uv |-> PushBack(st.uv, m.vertices[i]),
          un |-> PushBack(st.un, m.normals[i])]
    ELSE [st EXCEPT !.un = PushBack(st.un, m.normals[i])]

\* Lines 669-674, one iteration of the compaction scan.  st is
\* [ni |-> newIndices, uv |-> uniqueVertices, un |-> uniqueNormals].
CompactStep(st, m, dm, i) ==
    IF dm[i] = i
    THEN [ni |-> [st.ni EXCEPT ![i] = Size(st.uv)],
          uv |-> PushBack(st.uv, m.vertices[i]),
          un |-> PushBack(st.un, m.normals[i])]
    ELSE st

\* The scan run from the last vertex down to the first.
RECURSIVE CompactLoop_Desc(_, _, _, _, _)
CompactLoop_Desc(st, m, dm, i, n) ==
    IF i >= n THEN st
    ELSE CompactLoop_Desc(CompactStep(st, m, dm, n - 1), m, dm, i, n - 1)

RECURSIVE CompactLoop(_, _, _, _, _)
CompactLoop(st, m, dm, i, n) ==
    IF i >= n THEN st ELSE CompactLoop(CompactStep(st, m, dm, i), m, dm, i + 1, n)

\* uint( x ) of an int or Index x.  An unsigned value is kept as its 32-bit
\* pattern read in two's complement, so the cast keeps the number and
\* uint( -1 ) = 4294967295 is the pattern -1; ULt is < on unsigned values.
ToUint(x) == x

ULt(a, b) == IF (a < 0) = (b < 0) THEN a < b ELSE b < 0

\* The corner translated without going through the duplicate map.
RewriteCorner_NoChain(dm, ni, oldIdx) == ToUint(ni[oldIdx])

\* Lines 683-685, one corner of one triangle.
RewriteCorner(dm, ni, oldIdx) == ToUint(ni[ToUint(dm[oldIdx])])

\* Lines 681-686, one iteration of the triangle loop.
RewriteIter(inds, dm, ni, t) ==
    [inds EXCEPT ![t] = [j \in 1 .. 3 |-> RewriteCorner(dm, ni, inds[t][j])]]

RECURSIVE RewriteLoop(_, _, _, _, _)
RewriteLoop(inds, dm, ni, t, n) ==
    IF t >= n THEN inds ELSE RewriteLoop(RewriteIter(inds, dm, ni, t), dm, ni, t + 1, n)

\* Line 692, one iteration of the vertexMap loop.
FillIter(vm, dm, ni, i) == [vm EXCEPT ![i] = ni[ToUint(dm[i])]]

RECURSIVE FillLoop(_, _, _, _, _)
FillLoop(vm, dm, ni, i, n) ==
    IF i >= n THEN vm ELSE FillLoop(FillIter(vm, dm, ni, i), dm, ni, i + 1, n)

\* std::vector::resize( n ) of a vector of Index: kept entries, new ones Invalid.
Resize(v, n) == [k \in Range0(n) |-> IF k \in DOMAIN v THEN v[k] ELSE Invalid]

(* ------------------------------------------------------------------------ *)
(* Input meshes.                                                            *)
(* ------------------------------------------------------------------------ *)

Triangles(n) == Range0(n) \X Range0(n) \X Range0(n)

\* The meshes with n vertices and t triangles that satisfy the invariants of
\* a TriangleMesh: as many normals as vertices, every index below n.
Meshes(n, t) ==
    { [vertices |-> vs,
       normals  |-> [i \in Range0(n) |-> NormalOf(i)],
       indices  |-> ts] :
      vs \in [Range0(n) -> PosSet], ts \in [Range0(t) -> Triangles(n)] }

\* What an access outside a container may read as an index.
GarbageIdx == {Invalid, 0, 1}

\* What a read outside mesh.normals() may yield.
GarbageNormal == <<"n", Invalid>>

\* The meshes with n vertices, l normals and t triangles with indices up to
\* n that break an invariant of a TriangleMesh: l differs from n, or an index
\* is n, the first one that is no vertex.
BadPosSet == { <<PosZero, PosZero, PosZero>>, <<PosZero, PosZero, One>> }

BadMeshes(n, l, t) ==
    { m \in { [vertices |-> vs,
               normals  |-> [i \in Range0(l) |-> NormalOf(i)],
               indices  |-> ts] :
             vs \in [Range0(n) -> BadPosSet],
             ts \in [Range0(t) -> Triangles(n + 1)] } :
        \/ l # n
        \/ \E k \in DOMAIN m.indices : \E j \in 1 .. 3 : m.indices[k][j] = n }

(* ------------------------------------------------------------------------ *)
(* The state machine: one call of removeDuplicates, phase by phase, and a   *)
(* second call on the mesh the first one produced.                          *)
(* ------------------------------------------------------------------------ *)

\* The value the in-class initialisers of MainWindow.hpp give the two flags
\* m_lockTimeSystem and m_exportMeshes.
MemberInitial == FALSE

\* No timeline slot has run yet.
NoCall == [slot |-> "none", arg |-> 0]

\* The window between two frames, with nothing to export and the timeline
\* showing the engine's time.
FrameAtRest ==
    /\ fpc = "idle"
    /\ m_lockTimeSystem = MemberInitial
    /\ m_exportMeshes = MemberInitial
    /\ timelineTime = 0
    /\ engine = [time |-> 0, startTime |-> 0, endTime |-> 0,
                 play |-> FALSE, forwardBackward |-> FALSE]
    /\ app = [updateAsked |-> FALSE, continuousUpdate |-> FALSE, playChecked |-> FALSE]
    /\ renderObjects = Filled(0, Invalid)
    /\ cur = 0
    /\ logged = {}
    /\ mdd_files = {}
    /\ nullDeref = FALSE
    /\ call = NoCall

\* Entry of removeDuplicates (line 659) with a fresh, empty vertexMap, as at
\* lines 743-744.
Init ==
    /\ \E n \in 0 .. MaxSize : \E t \in 0 .. (MaxSize - n) :
           mesh \in Meshes(n, t)
    /\ orig = mesh
    /\ vertices = Filled(0, Invalid)
    /\ duplicatesMap = Filled(0, Invalid)
    /\ hasDuplicates = FALSE
    /\ newIndices = Filled(0, Invalid)
    /\ uniqueVertices = Filled(0, Invalid)
    /\ uniqueNormals = Filled(0, Invalid)
    /\ vertexMap = Filled(0, Invalid)
    /\ pc = "pair"
    /\ again = FALSE
    /\ oob = FALSE
    /\ todo = {}
    /\ FrameAtRest

\* Lines 613-624: the output map is cleared and resized, the pairs are built.
FD_Pair ==
    /\ pc = "pair"
    /\ LET numVerts == Size(mesh.vertices)
       IN  /\ hasDuplicates' = FALSE
           /\ duplicatesMap' = Filled(numVerts, Invalid)
           /\ vertices' = PairLoop(Filled(numVerts, [first |-> Invalid, second |-> Invalid]),
                                   mesh, 0, numVerts)
    /\ pc' = "sort"
    /\ UNCHANGED <<mesh, orig, newIndices, uniqueVertices, uniqueNormals,
                   vertexMap, again, oob>>
    /\ UNCHANGED <<todo, frame>>

\* The sort applied to the mesh's own vertex array as well.
FD_Sort_InPlace ==
    /\ pc = "sort"
    /\ vertices' = Sort(vertices)
    /\ mesh' = [mesh EXCEPT !.vertices =
                   [k \in DOMAIN vertices |-> Sort(vertices)[k].first]]
    /\ pc' = "walk"
    /\ UNCHANGED <<orig, duplicatesMap, hasDuplicates, newIndices,
                   uniqueVertices, uniqueNormals, vertexMap, again, oob>>
    /\ UNCHANGED <<todo, frame>>

\* Lines 626-638.
FD_Sort ==
    /\ pc = "sort"
    /\ vertices' = Sort(vertices)
    /\ pc' = "walk"
    /\ UNCHANGED <<mesh, orig, duplicatesMap, hasDuplicates, newIndices,
                   uniqueVertices, uniqueNormals, vertexMap, again, oob>>
    /\ UNCHANGED <<todo, frame>>

\* Lines 644-656.  Line 644 reads vertices[0] and writes through what it read
\* whatever numVerts is: on an empty vector both accesses are outside the
\* containers, and the call either faults or goes on with the write landing
\* outside duplicatesMap.
FD_Walk ==
    /\ pc = "walk"
    /\ IF Size(vertices) = 0
       THEN /\ oob' = TRUE
            /\ pc' \in {"fault", "compact"}
            /\ UNCHANGED <<duplicatesMap, hasDuplicates>>
       ELSE /\ LET st == Walk(duplicatesMap, hasDuplicates, vertices)
               IN  /\ duplicatesMap' = st.dm
                   /\ hasDuplicates' = st.has
            /\ pc' = "compact"
            /\ oob' = oob
    /\ UNCHANGED <<mesh, orig, vertices, newIndices, uniqueVertices,
                   uniqueNormals, vertexMap, again>>
    /\ UNCHANGED <<todo, frame>>

\* Lines 663-675.  The scan reads mesh.normals()[i] for every representative.
CompactInRange ==
    \A i \in DOMAIN mesh.vertices :
        i \in DOMAIN duplicatesMap /\ (duplicatesMap[i] = i => i \in DOMAIN mesh.normals)

RD_Compact ==
    /\ pc = "compact"
    /\ LET numVerts == Size(mesh.vertices)
       IN  IF CompactInRange
           THEN /\ LET st == CompactLoop([ni |-> Filled(numVerts, Invalid),
                                          uv |-> Filled(0, Invalid),
                                          un |-> Filled(0, Invalid)],
                                         mesh, duplicatesMap, 0, numVerts)
                   IN  /\ newIndices' = st.ni
                       /\ uniqueVertices' = st.uv
                       /\ uniqueNormals' = st.un
                /\ pc' = "rewrite"
                /\ oob' = oob
           ELSE /\ oob' = TRUE
                /\ \/ /\ pc' = "fault"
                      /\ UNCHANGED <<newIndices, uniqueVertices, uniqueNormals>>
                   \/ /\ pc' = "rewrite"
                      /\ LET read == [mesh EXCEPT !.normals =
                                         [i \in DOMAIN mesh.vertices |->
                                             IF i \in DOMAIN mesh.normals
                                             THEN mesh.normals[i]
                                             ELSE GarbageNormal]]
                             st == CompactLoop([ni |-> Filled(numVerts, Invalid),
                                                uv |-> Filled(0, Invalid),
                                                un |-> Filled(0, Invalid)],
                                               read, duplicatesMap, 0, numVerts)
                         IN  /\ newIndices' = st.ni
                             /\ uniqueVertices' = st.uv
                             /\ uniqueNormals' = st.un
    /\ UNCHANGED <<mesh, orig, vertices, duplicatesMap, hasDuplicates,
                   vertexMap, again>>
    /\ UNCHANGED <<todo, frame>>

\* Lines 677-687.  Every corner reads duplicatesMap[oldIdx] and then
\* newIndices[uint( that )].
RewriteInRange ==
    \A t \in DOMAIN mesh.indices : \A j \in 1 .. 3 :
        /\ mesh.indices[t][j] \in DOMAIN duplicatesMap
        /\ ToUint(duplicatesMap[mesh.indices[t][j]]) \in DOMAIN newIndices

RD_Rewrite ==
    /\ pc = "rewrite"
    /\ IF RewriteInRange
       THEN /\ mesh' = [mesh EXCEPT !.indices =
                           RewriteLoop(mesh.indices, duplicatesMap, newIndices,
                                       0, Size(mesh.indices))]
            /\ pc' = "fill"
            /\ oob' = oob
       ELSE /\ oob' = TRUE
            /\ \/ pc' = "fault" /\ mesh' = mesh
               \/ /\ pc' = "fill"
                  /\ LET bad == {c \in (DOMAIN mesh.indices) \X (1 .. 3) :
                                     ~ /\ mesh.indices[c[1]][c[2]] \in DOMAIN duplicatesMap
                                       /\ ToUint(duplicatesMap[mesh.indices[c[1]][c[2]]])
                                              \in DOMAIN newIndices}
                     IN  \E g \in [bad -> GarbageIdx] :
                            mesh' = [mesh EXCEPT !.indices =
                                [t \in DOMAIN mesh.indices |-> [j \in 1 .. 3 |->
                                    IF <<t, j>> \in bad
                                    THEN ToUint(g[<<t, j>>])
                                    ELSE RewriteCorner(duplicatesMap, newIndices,
                                                       mesh.indices[t][j])]]]
    /\ UNCHANGED <<orig, vertices, duplicatesMap, hasDuplicates, newIndices,
                   uniqueVertices, uniqueNormals, vertexMap, again>>
    /\ UNCHANGED <<todo, frame>>

\* Lines 689-692.
FillInRange ==
    \A i \in DOMAIN mesh.vertices :
        i \in DOMAIN duplicatesMap /\ ToUint(duplicatesMap[i]) \in DOMAIN newIndices

RD_Fill ==
    /\ pc = "fill"
    /\ LET numVerts == Size(mesh.vertices)
       IN  IF FillInRange
           THEN /\ vertexMap' = FillLoop(Resize(vertexMap, numVerts), duplicatesMap,
                                         newIndices, 0, numVerts)
                /\ pc' = "replace"
                /\ oob' = oob
           ELSE /\ oob' = TRUE
                /\ \/ pc' = "fault" /\ vertexMap' = vertexMap
                   \/ /\ pc' = "replace"
                      /\ \E g \in [Range0(numVerts) -> GarbageIdx] :
                            vertexMap' = [i \in Range0(numVerts) |->
                                IF /\ i \in DOMAIN duplicatesMap
                                   /\ ToUint(duplicatesMap[i]) \in DOMAIN newIndices
                                THEN newIndices[ToUint(duplicatesMap[i])]
                                ELSE g[i]]
    /\ UNCHANGED <<mesh, orig, vertices, duplicatesMap, hasDuplicates,
                   newIndices, uniqueVertices, uniqueNormals, again>>
    /\ UNCHANGED <<todo, frame>>

\* Lines 694-695.
RD_Replace ==
    /\ pc = "replace"
    /\ mesh' = [mesh EXCEPT !.vertices = uniqueVertices, !.normals = uniqueNormals]
    /\ pc' = "done"
    /\ UNCHANGED <<orig, vertices, duplicatesMap, hasDuplicates, newIndices,
                   uniqueVertices, uniqueNormals, vertexMap, again, oob>>
    /\ UNCHANGED <<todo, frame>>

\* removeDuplicates is called once more, on the mesh it returned, with the
\* vertexMap vector of the first call.  Nothing is said of a program that has
\* left defined behaviour, so no second call is followed from there.
CallAgain ==
    /\ pc = "done"
    /\ ~again
    /\ ~oob
    /\ again' = TRUE
    /\ orig' = mesh
    /\ vertices' = Filled(0, Invalid)
    /\ duplicatesMap' = Filled(0, Invalid)
    /\ hasDuplicates' = FALSE
    /\ newIndices' = Filled(0, Invalid)
    /\ uniqueVertices' = Filled(0, Invalid)
    /\ uniqueNormals' = Filled(0, Invalid)
    /\ pc' = "pair"
    /\ UNCHANGED <<mesh, vertexMap, oob>>
    /\ UNCHANGED <<todo, frame>>

Next ==
    \/ FD_Pair
    \/ FD_Sort
    \/ FD_Walk
    \/ RD_Compact
    \/ RD_Rewrite
    \/ RD_Fill
    \/ RD_Replace
    \/ CallAgain

Spec == Init /\ [][Next]_vars

\* The same calls, entered with a non-empty mesh that breaks an invariant of
\* a TriangleMesh.
InitBad ==
    /\ \E n \in 1 .. MaxBadSize : \E t \in 0 .. (MaxBadSize - n) :
           \E l \in 0 .. (n + 1) : mesh \in BadMeshes(n, l, t)
    /\ orig = mesh
    /\ vertices = Filled(0, Invalid)
    /\ duplicatesMap = Filled(0, Invalid)
    /\ hasDuplicates = FALSE
    /\ newIndices = Filled(0, Invalid)
    /\ uniqueVertices = Filled(0, Invalid)
    /\ uniqueNormals = Filled(0, Invalid)
    /\ vertexMap = Filled(0, Invalid)
    /\ pc = "pair"
    /\ again = FALSE
    /\ oob = FALSE
    /\ todo = {}
    /\ FrameAtRest

SpecBad == InitBad /\ [][Next]_vars

(* ------------------------------------------------------------------------ *)
(* The three "#pragma omp parallel for schedule( static )" loops, lines     *)
(* 620, 678 and 690, one iteration at a time.  todo holds the iterations no *)
(* worker has run yet; any of them may be the next to run.                  *)
(* ------------------------------------------------------------------------ *)

\* A loop left without waiting for its workers.
LoopJoined_Nowait(td) == TRUE

\* The worksharing loops carry no nowait clause: the construct is left when
\* every iteration has run.
LoopJoined(td) == td = {}

\* Lines 613-620: the map is cleared and resized, the pair vector allocated,
\* the workers started.
Par_PairFork ==
    /\ pc = "pair"
    /\ LET numVerts == Size(mesh.vertices)
       IN  /\ hasDuplicates' = FALSE
           /\ duplicatesMap' = Filled(numVerts, Invalid)
           /\ vertices' = Filled(numVerts, [first |-> Invalid, second |-> Invalid])
           /\ todo' = Range0(numVerts)
    /\ pc' = "pairing"
    /\ UNCHANGED <<mesh, orig, newIndices, uniqueVertices, uniqueNormals,
                   vertexMap, again, oob, frame>>

\* Line 623, by some worker.
Par_PairIter ==
    /\ pc = "pairing"
    /\ \E i \in todo :
          /\ vertices' = PairIter(vertices, mesh, i)
          /\ todo' = todo \ {i}
    /\ UNCHANGED <<mesh, orig, duplicatesMap, hasDuplicates, newIndices,
                   uniqueVertices, uniqueNormals, vertexMap, pc, again, oob, frame>>

\* Line 624, end of the construct.
Par_PairJoin ==
    /\ pc = "pairing"
    /\ LoopJoined(todo)
    /\ pc' = "sort"
    /\ UNCHANGED <<mesh, orig, vertices, duplicatesMap, hasDuplicates, newIndices,
                   uniqueVertices, uniqueNormals, vertexMap, again, oob, todo, frame>>

\* Lines 677-678.
Par_RewriteFork ==
    /\ pc = "rewrite"
    /\ todo' = Range0(Size(mesh.indices))
    /\ pc' = "rewriting"
    /\ UNCHANGED <<mesh, orig, vertices, duplicatesMap, hasDuplicates, newIndices,
                   uniqueVertices, uniqueNormals, vertexMap, again, oob, frame>>

\* Lines 681-686, by some worker.
Par_RewriteIter ==
    /\ pc = "rewriting"
    /\ \E t \in todo :
          /\ mesh' = [mesh EXCEPT !.indices =
                         RewriteIter(mesh.indices, duplicatesMap, newIndices, t)]
          /\ todo' = todo \ {t}
    /\ UNCHANGED <<orig, vertices, duplicatesMap, hasDuplicates, newIndices,
                   uniqueVertices, uniqueNormals, vertexMap, pc, again, oob, frame>>

\* Line 687, end of the construct.
Par_RewriteJoin ==
    /\ pc = "rewriting"
    /\ LoopJoined(todo)
    /\ pc' = "fill"
    /\ UNCHANGED <<mesh, orig, vertices, duplicatesMap, hasDuplicates, newIndices,
                   uniqueVertices, uniqueNormals, vertexMap, again, oob, todo, frame>>

\* Lines 689-690.
Par_FillFork ==
    /\ pc = "fill"
    /\ vertexMap' = Resize(vertexMap, Size(mesh.vertices))
    /\ todo' = Range0(Size(mesh.vertices))
    /\ pc' = "filling"
    /\ UNCHANGED <<mesh, orig, vertices, duplicatesMap, hasDuplicates, newIndices,
                   uniqueVertices, uniqueNormals, again, oob, frame>>

\* Line 692, by some worker.
Par_FillIter ==
    /\ pc = "filling"
    /\ \E i \in todo :
          /\ vertexMap' = FillIter(vertexMap, duplicatesMap, newIndices, i)
          /\ todo' = todo \ {i}
    /\ UNCHANGED <<mesh, orig, vertices, duplicatesMap, hasDuplicates, newIndices,
                   uniqueVertices, uniqueNormals, pc, again, oob, frame>>

\* Line 692, end of the construct.
Par_FillJoin ==
    /\ pc = "filling"
    /\ LoopJoined(todo)
    /\ pc' = "replace"
    /\ UNCHANGED <<mesh, orig, vertices, duplicatesMap, hasDuplicates, newIndices,
                   uniqueVertices, uniqueNormals, vertexMap, again, oob, todo, frame>>

InitPar ==
    /\ \E n \in 0 .. MaxParSize : \E t \in 0 .. (MaxParSize - n) :
           mesh \in Meshes(n, t)
    /\ orig = mesh
    /\ vertices = Filled(0, Invalid)
    /\ duplicatesMap = Filled(0, Invalid)
    /\ hasDuplicates = FALSE
    /\ newIndices = Filled(0, Invalid)
    /\ uniqueVertices = Filled(0, Invalid)
    /\ uniqueNormals = Filled(0, Invalid)
    /\ vertexMap = Filled(0, Invalid)
    /\ pc = "pair"
    /\ again = FALSE
    /\ oob = FALSE
    /\ todo = {}
    /\ FrameAtRest

NextPar ==
    \/ Par_PairFork
    \/ Par_PairIter
    \/ Par_PairJoin
    \/ FD_Sort
    \/ FD_Walk
    \/ RD_Compact
    \/ Par_RewriteFork
    \/ Par_RewriteIter
    \/ Par_RewriteJoin
    \/ Par_FillFork
    \/ Par_FillIter
    \/ Par_FillJoin
    \/ RD_Replace

SpecPar == InitPar /\ [][NextPar]_vars

(* ------------------------------------------------------------------------ *)
(* Vocabulary of the properties.  Nothing below is used by the actions.     *)
(* ------------------------------------------------------------------------ *)

\* Two positions are exactly equal: coefficient by coefficient, by value.
SamePosition(p, q) == \A c \in 1 .. 3 : FVal(p[c]) = FVal(q[c])

\* The original indices of the call in progress.
OrigIdx == DOMAIN orig.vertices

\* The smallest original index whose position equals that of vertex i.
FirstOf(i) ==
    CHOOSE j \in OrigIdx :
        /\ SamePosition(orig.vertices[j], orig.vertices[i])
        /\ \A k \in OrigIdx :
               SamePosition(orig.vertices[k], orig.vertices[i]) => j <= k

\* The original mesh holds two vertices with exactly equal positions.
HasEqualPair ==
    \E i, j \in OrigIdx :
        i # j /\ SamePosition(orig.vertices[i], orig.vertices[j])

\* findDuplicates has returned.
AfterFind == pc \in {"compact", "rewrite", "fill", "replace", "done"}

\* removeDuplicates has returned.
Done == pc = "done"

Identity(n) == [i \in Range0(n) |-> i]

(* ------------------------------------------------------------------------ *)
(* Properties.                                                              *)
(* ------------------------------------------------------------------------ *)

\* C1: for a mesh with N >= 1 vertices, after findDuplicates the duplicate
\* map has length N, no entry is Invalid, entry i is the smallest original
\* index whose position equals that of i, and entry i is i exactly when no
\* smaller index has the position of i.
C1_DuplicatesMapIsFirstOccurrence ==
    (AfterFind /\ Size(orig.vertices) >= 1) =>
        /\ DOMAIN duplicatesMap = OrigIdx
        /\ \A i \in OrigIdx :
              /\ duplicatesMap[i] # Invalid
              /\ duplicatesMap[i] = FirstOf(i)
              /\ duplicatesMap[i] <= i
              /\ (duplicatesMap[i] = i) <=>
                     ~ \E j \in OrigIdx :
                           j < i /\ SamePosition(orig.vertices[j], orig.vertices[i])

\* C1 witness: findDuplicates has returned on a mesh where one position occurs
\* three times and another vertex, not the first, is its own representative.
C1_Witness ==
    /\ AfterFind
    /\ \E i, j, k \in OrigIdx :
          i < j /\ j < k /\ duplicatesMap[j] = i /\ duplicatesMap[k] = i
    /\ \E i \in OrigIdx : i > 0 /\ duplicatesMap[i] = i

\* C2: after removeDuplicates the compacted vertex at vertexMap[i] has a
\* position exactly equal to the one original vertex i had.
C2_PositionPreserved ==
    Done =>
        /\ DOMAIN vertexMap = OrigIdx
        /\ \A i \in OrigIdx :
              /\ vertexMap[i] \in DOMAIN mesh.vertices
              /\ SamePosition(mesh.vertices[vertexMap[i]], orig.vertices[i])

\* C2 witness: a vertex was collapsed into an earlier one and moved, and the
\* position it now resolves to equals its own without being the same value
\* (the two differ in the sign of a zero).
C2_Witness ==
    /\ Done
    /\ \E i \in OrigIdx :
          /\ vertexMap[i] \in DOMAIN mesh.vertices
          /\ vertexMap[i] # i
          /\ duplicatesMap[i] # i
          /\ mesh.vertices[vertexMap[i]] # orig.vertices[i]

\* C3: removeDuplicates keeps the triangle list's length and order, and the
\* triangle (a,b,c) at place t becomes (vertexMap[a], vertexMap[b],
\* vertexMap[c]) at place t; degenerate triangles are kept.
C3_TopologyPreserved ==
    Done =>
        /\ DOMAIN mesh.indices = DOMAIN orig.indices
        /\ \A t \in DOMAIN orig.indices : \A j \in 1 .. 3 :
              /\ orig.indices[t][j] \in DOMAIN vertexMap
              /\ mesh.indices[t][j] = vertexMap[orig.indices[t][j]]

\* C3 witness: the triangle (0,1,2) of a three-vertex mesh whose last vertex
\* repeats the first one was rewritten to the degenerate triangle (0,1,0).
C3_Witness ==
    /\ Done
    /\ Size(orig.vertices) = 3
    /\ Size(orig.indices) = 1
    /\ orig.indices[0] = <<0, 1, 2>>
    /\ mesh.indices[0] = <<0, 1, 0>>

\* C4: after removeDuplicates on a mesh satisfying the input invariants every
\* vertexMap[i] is a valid index of the compacted vertex array, never
\* Invalid, and every triangle index is below the compacted vertex count.
C4_IndicesInRange ==
    Done =>
        /\ \A i \in OrigIdx :
              /\ vertexMap[i] # Invalid
              /\ 0 <= vertexMap[i]
              /\ vertexMap[i] < Size(mesh.vertices)
        /\ \A t \in DOMAIN mesh.indices : \A j \in 1 .. 3 :
              ULt(mesh.indices[t][j], ToUint(Size(mesh.vertices)))

\* C4 witness: a mesh with a triangle lost a vertex, and its last original
\* vertex is referenced by the triangle and resolves to the last compacted one.
C4_Witness ==
    /\ Done
    /\ Size(mesh.vertices) < Size(orig.vertices)
    /\ Size(mesh.vertices) >= 2
    /\ \E t \in DOMAIN orig.indices : \E j \in 1 .. 3 :
          /\ orig.indices[t][j] = Size(orig.vertices) - 1
          /\ mesh.indices[t][j] = Size(mesh.vertices) - 1

\* C5: original vertices with exactly equal positions get the same vertexMap
\* entry, and that entry is the compacted vertex made from the smallest
\* original index of the run (its position and its normal), also for runs of
\* three or more.
C5_RunsCollapseToFirst ==
    Done =>
        \A i \in OrigIdx :
            /\ \A j \in OrigIdx :
                  SamePosition(orig.vertices[i], orig.vertices[j])
                      => vertexMap[i] = vertexMap[j]
            /\ vertexMap[i] \in DOMAIN mesh.vertices
            /\ vertexMap[i] \in DOMAIN mesh.normals
            /\ mesh.vertices[vertexMap[i]] = orig.vertices[FirstOf(i)]
            /\ mesh.normals[vertexMap[i]] = orig.normals[FirstOf(i)]

\* C5 witness: a run of three equal positions that does not start at index 0,
\* collapsed into one compacted vertex.
C5_Witness ==
    /\ Done
    /\ \E i, j, k \in OrigIdx :
          /\ 0 < i /\ i < j /\ j < k
          /\ SamePosition(orig.vertices[i], orig.vertices[j])
          /\ SamePosition(orig.vertices[j], orig.vertices[k])
          /\ ~SamePosition(orig.vertices[0], orig.vertices[i])
          /\ vertexMap[k] = vertexMap[i]

\* C6: the vertex count after removeDuplicates is at most the count before,
\* and the two are equal exactly when findDuplicates returned false on the
\* original mesh.
C6_Cardinality ==
    Done =>
        /\ Size(mesh.vertices) <= Size(orig.vertices)
        /\ (Size(mesh.vertices) = Size(orig.vertices)) <=> ~hasDuplicates

\* C6 witness: a first call that removed two of four vertices.
C6_Witness ==
    /\ Done
    /\ ~again
    /\ hasDuplicates
    /\ Size(orig.vertices) = 4
    /\ Size(mesh.vertices) = 2

\* C7: findDuplicates returns true exactly when the walk chained an entry to
\* an earlier one, which is exactly when two different vertices have exactly
\* equal positions; it returns false when the positions are pairwise distinct.
C7_ReturnValue ==
    AfterFind =>
        /\ hasDuplicates <=> (\E i \in DOMAIN duplicatesMap : duplicatesMap[i] # i)
        /\ hasDuplicates <=> HasEqualPair

\* C7 witness: findDuplicates returned true on a mesh whose only equal
\* positions are not neighbours in the original order.
C7_Witness ==
    /\ pc = "compact"
    /\ hasDuplicates
    /\ Size(orig.vertices) >= 3
    /\ \A i, j \in OrigIdx :
          (i < j /\ SamePosition(orig.vertices[i], orig.vertices[j])) => j > i + 1

\* C8: a second removeDuplicates, on the mesh the first one produced, leaves
\* vertices, normals and triangle indices unchanged, its findDuplicates
\* returns false, and its vertexMap is the identity on 0..M-1.
C8_Idempotent ==
    (Done /\ again) =>
        /\ mesh = orig
        /\ ~hasDuplicates
        /\ vertexMap = Identity(Size(orig.vertices))

\* C8 witness: the second call has returned on a mesh with a triangle, at
\* least two vertices and positions given in an order the sort changes.
C8_Witness ==
    /\ Done
    /\ again
    /\ Size(mesh.indices) >= 1
    /\ Size(mesh.vertices) >= 2
    /\ vertices[0].second # 0

\* C9: on a mesh whose positions are pairwise distinct removeDuplicates
\* leaves vertices, normals and triangle indices unchanged and returns the
\* identity vertexMap.
C9_NoDuplicatesUnchanged ==
    (Done /\ ~HasEqualPair) =>
        /\ mesh = orig
        /\ vertexMap = Identity(Size(orig.vertices))

\* C9 witness: a first call returned on three pairwise distinct positions,
\* not given in sorted order, with a triangle.
C9_Witness ==
    /\ Done
    /\ ~again
    /\ ~HasEqualPair
    /\ Size(orig.vertices) = 3
    /\ Size(orig.indices) = 1
    /\ vertices[0].second # 0

\* C10: on a mesh with zero vertices findDuplicates returns false with an
\* empty duplicate map and removeDuplicates yields an empty vertexMap, with
\* no access outside a container and no fault.
C10_EmptyMeshHandled ==
    Size(orig.vertices) = 0 =>
        /\ ~oob
        /\ pc # "fault"
        /\ AfterFind => (~hasDuplicates /\ Size(duplicatesMap) = 0)
        /\ Done => Size(vertexMap) = 0

\* The original indices that are their own representative.
Representatives == {i \in OrigIdx : duplicatesMap[i] = i}

\* The compaction scan has finished.
AfterCompact == pc \in {"rewrite", "fill", "replace", "done"}

\* C11: findDuplicates does not mutate the mesh: vertices, normals and
\* triangle indices are after the call what they were before it; it writes its
\* output map only, which it clears and resizes to the vertex count.
C11_FindLeavesMeshAlone ==
    /\ pc \in {"sort", "walk", "compact"} =>
          /\ mesh = orig
          /\ DOMAIN duplicatesMap = DOMAIN mesh.vertices
          /\ Size(newIndices) = 0 /\ Size(uniqueVertices) = 0 /\ Size(uniqueNormals) = 0
    /\ pc \in {"sort", "walk"} =>
          duplicatesMap = Filled(Size(mesh.vertices), Invalid)

\* C11 witness: findDuplicates has returned true on a mesh with a triangle
\* whose vertices the sort put in another order.
C11_Witness ==
    /\ pc = "compact"
    /\ hasDuplicates
    /\ Size(mesh.indices) = 1
    /\ Size(mesh.vertices) = 3
    /\ vertices[0].second = 2

\* C14: the k-th compacted vertex is the position of the k-th original index,
\* in ascending order, that is its own representative; so vertexMap is
\* strictly increasing on the representatives and maps them one-to-one onto
\* 0..M-1.
C14_FirstOccurrenceOrder ==
    Done =>
        /\ Size(mesh.vertices) = Cardinality(Representatives)
        /\ \A i \in Representatives :
              /\ vertexMap[i] = Cardinality({j \in Representatives : j < i})
              /\ vertexMap[i] \in DOMAIN mesh.vertices
              /\ mesh.vertices[vertexMap[i]] = orig.vertices[i]
        /\ \A i, j \in Representatives : i < j => vertexMap[i] < vertexMap[j]
        /\ {vertexMap[i] : i \in Representatives} = Range0(Size(mesh.vertices))

\* C14 witness: four vertices of which the third repeats the first; the
\* returned vertexMap is [0,1,0,2].
C14_Witness ==
    /\ Done
    /\ Size(orig.vertices) = 4
    /\ vertexMap = (0 :> 0 @@ 1 :> 1 @@ 2 :> 0 @@ 3 :> 2)

\* C17: for a mesh with N >= 1 vertices the duplicate map is idempotent;
\* after the compaction scan newIndices[i] is valid exactly for the i with
\* duplicatesMap[i] = i; so every lookup newIndices[duplicatesMap[x]] the
\* triangle rewrite and the vertexMap fill perform hits a valid entry.
C17_LookupsHitValidEntries ==
    Size(orig.vertices) >= 1 =>
        /\ ~oob
        /\ AfterFind =>
              \A i \in OrigIdx :
                  /\ duplicatesMap[i] \in OrigIdx
                  /\ duplicatesMap[duplicatesMap[i]] = duplicatesMap[i]
        /\ AfterCompact =>
              /\ DOMAIN newIndices = OrigIdx
              /\ \A i \in OrigIdx :
                    (newIndices[i] # Invalid) <=> (duplicatesMap[i] = i)
        /\ pc = "rewrite" =>
              \A t \in DOMAIN mesh.indices : \A j \in 1 .. 3 :
                  /\ mesh.indices[t][j] \in DOMAIN duplicatesMap
                  /\ duplicatesMap[mesh.indices[t][j]] \in DOMAIN newIndices
                  /\ newIndices[duplicatesMap[mesh.indices[t][j]]] # Invalid
        /\ pc = "fill" =>
              \A i \in OrigIdx :
                  /\ duplicatesMap[i] \in DOMAIN newIndices
                  /\ newIndices[duplicatesMap[i]] # Invalid

\* C17 witness: the triangle rewrite is about to run on a mesh where a
\* position occurs three times and the triangle refers to its last occurrence.
C17_Witness ==
    /\ pc = "rewrite"
    /\ \E i, j, k \in OrigIdx :
          /\ i < j /\ j < k
          /\ duplicatesMap[j] = i /\ duplicatesMap[k] = i
          /\ \E t \in DOMAIN mesh.indices : mesh.indices[t][1] = k

\* C18: after removeDuplicates the compacted normal array is as long as the
\* compacted vertex array, the normal at vertexMap[i] is the original normal
\* of the representative duplicatesMap[i], and the normal of a vertex that is
\* not a representative is gone, also when it differs from the kept one.
C18_NormalsOfRepresentatives ==
    Done =>
        /\ DOMAIN mesh.normals = DOMAIN mesh.vertices
        /\ \A i \in OrigIdx :
              /\ duplicatesMap[i] \in DOMAIN orig.normals
              /\ vertexMap[i] \in DOMAIN mesh.normals
              /\ mesh.normals[vertexMap[i]] = orig.normals[duplicatesMap[i]]
        /\ \A i \in OrigIdx \ Representatives :
              \A k \in DOMAIN mesh.normals :
                  (\A r \in Representatives : orig.normals[r] # orig.normals[i])
                      => mesh.normals[k] # orig.normals[i]

\* C18 witness: a vertex that is not a representative had a normal of its own,
\* different from its representative's.
C18_Witness ==
    /\ Done
    /\ \E i \in OrigIdx :
          /\ duplicatesMap[i] # i
          /\ orig.normals[i] # orig.normals[duplicatesMap[i]]
          /\ mesh.normals[vertexMap[i]] = orig.normals[duplicatesMap[i]]

(* ------------------------------------------------------------------------ *)
(* MainWindow::onFrameComplete, lines 698-776, and exportMeshEveryFrame,    *)
(* lines 878-880.                                                           *)
(* ------------------------------------------------------------------------ *)

\* Ra::Core::Math::areApproxEqual on the times of the model, which are whole
\* numbers: two of them are within the tolerance exactly when they are equal.
areApproxEqual(a, b) == a = b

\* What stands for the geometry of a render object that has no Mesh.
NoGeometry ==
    [vertices |-> Filled(0, Invalid), normals |-> Filled(0, Invalid),
     indices |-> Filled(0, Invalid)]

\* The geometries a Mesh of the scene may hold: two vertices, the second
\* equal to the first or not, and one triangle.
FrameMeshes ==
    { m \in Meshes(2, 1) :
        /\ m.vertices[0] = <<PosZero, PosZero, PosZero>>
        /\ m.vertices[1] \in BadPosSet
        /\ m.indices[0] \in { <<0, 1, 0>>, <<1, 1, 0>> } }

\* A render object as lines 720-729 see it: whether one of the four names is
\* found, whether the dynamic_cast yields a Mesh, and the geometry of it.
RenderObjects ==
    [passes : BOOLEAN, hasMesh : {TRUE}, geom : FrameMeshes]
        \cup [passes : BOOLEAN, hasMesh : {FALSE}, geom : {NoGeometry}]

\* Lines 742-744: triMesh and dupliMap are fresh locals, removeDuplicates is
\* entered.
EnterRemoveDuplicates(g) ==
    /\ mesh' = g
    /\ orig' = g
    /\ vertices' = Filled(0, Invalid)
    /\ duplicatesMap' = Filled(0, Invalid)
    /\ hasDuplicates' = FALSE
    /\ newIndices' = Filled(0, Invalid)
    /\ uniqueVertices' = Filled(0, Invalid)
    /\ uniqueNormals' = Filled(0, Invalid)
    /\ vertexMap' = Filled(0, Invalid)
    /\ pc' = "pair"
    /\ fpc' = "dedup"

\* The locals of one turn of the export loop go out of scope.
LeaveRemoveDuplicates ==
    /\ mesh' = NoGeometry
    /\ orig' = NoGeometry
    /\ vertices' = Filled(0, Invalid)
    /\ duplicatesMap' = Filled(0, Invalid)
    /\ hasDuplicates' = FALSE
    /\ newIndices' = Filled(0, Invalid)
    /\ uniqueVertices' = Filled(0, Invalid)
    /\ uniqueNormals' = Filled(0, Invalid)
    /\ vertexMap' = Filled(0, Invalid)
    /\ pc' = "none"

\* Lines 878-880.
exportMeshEveryFrame ==
    /\ fpc = "idle"
    /\ \E on \in BOOLEAN : m_exportMeshes' = on
    /\ call' = NoCall
    /\ UNCHANGED <<mesh, orig, vertices, duplicatesMap, hasDuplicates, newIndices,
                   uniqueVertices, uniqueNormals, vertexMap, pc, again, oob, todo>>
    /\ UNCHANGED <<fpc, m_lockTimeSystem, timelineTime, engine, app,
                   renderObjects, cur, logged, mdd_files, nullDeref>>

\* Lines 698-704: the times are compared and, when they differ, the lock is
\* taken.
FC_Enter ==
    /\ fpc = "idle"
    /\ IF ~areApproxEqual(timelineTime, engine.time)
       THEN /\ m_lockTimeSystem' = TRUE
            /\ fpc' = "push"
       ELSE /\ m_lockTimeSystem' = m_lockTimeSystem
            /\ fpc' = "export"
    /\ call' = NoCall
    /\ UNCHANGED <<mesh, orig, vertices, duplicatesMap, hasDuplicates, newIndices,
                   uniqueVertices, uniqueNormals, vertexMap, pc, again, oob, todo>>
    /\ UNCHANGED <<m_exportMeshes, timelineTime, engine, app,
                   renderObjects, cur, logged, mdd_files, nullDeref>>

\* Lines 708-717: without per-frame export the handler returns, with it the
\* loop over the render objects starts.
FC_Export ==
    /\ fpc = "export"
    /\ IF m_exportMeshes
       THEN fpc' = "loop" /\ cur' = 0
       ELSE fpc' = "idle" /\ cur' = cur
    /\ call' = NoCall
    /\ UNCHANGED <<mesh, orig, vertices, duplicatesMap, hasDuplicates, newIndices,
                   uniqueVertices, uniqueNormals, vertexMap, pc, again, oob, todo>>
    /\ UNCHANGED <<m_lockTimeSystem, m_exportMeshes, timelineTime, engine, app,
                   renderObjects, logged, mdd_files, nullDeref>>

\* Lines 718-744, one render object up to the call of removeDuplicates.  The
\* name filter of lines 725-729 ends the turn with continue; the test of line
\* 737 only logs, and line 742 calls getCoreGeometry() through the pointer
\* whatever it is: through a null pointer the frame either faults or goes on
\* with whatever the read yields.
FC_Object ==
    /\ fpc = "loop"
    /\ cur < Size(renderObjects)
    /\ LET ro == renderObjects[cur]
       IN  IF ~ro.passes
           THEN /\ cur' = cur + 1
                /\ UNCHANGED <<mesh, orig, vertices, duplicatesMap, hasDuplicates,
                               newIndices, uniqueVertices, uniqueNormals,
                               vertexMap, pc, fpc, logged, nullDeref>>
           ELSE IF ~ro.hasMesh
                THEN /\ logged' = logged \cup {<<"no mesh", cur>>}
                     /\ nullDeref' = TRUE
                     /\ \/ /\ fpc' = "fault"
                           /\ UNCHANGED <<mesh, orig, vertices, duplicatesMap,
                                          hasDuplicates, newIndices, uniqueVertices,
                                          uniqueNormals, vertexMap, pc>>
                        \/ \E g \in FrameMeshes : EnterRemoveDuplicates(g)
                     /\ cur' = cur
                ELSE /\ EnterRemoveDuplicates(ro.geom)
                     /\ UNCHANGED <<cur, logged, nullDeref>>
    /\ UNCHANGED <<again, oob, todo, m_lockTimeSystem, m_exportMeshes,
                   timelineTime, engine, app, renderObjects, mdd_files, call>>

\* Lines 745-773, after removeDuplicates has returned: obj.save succeeds or
\* not and logs which, the point cache file of the object is created on its
\* first frame, filled and exported.
FC_Save ==
    /\ fpc = "dedup"
    /\ pc = "done"
    /\ \E saved \in BOOLEAN :
          logged' = logged \cup {<<IF saved THEN "exported" ELSE "failed to export",
                                   cur>>}
    /\ mdd_files' = mdd_files \cup {cur}
    /\ cur' = cur + 1
    /\ fpc' = "loop"
    /\ LeaveRemoveDuplicates
    /\ UNCHANGED <<again, oob, todo, m_lockTimeSystem, m_exportMeshes,
                   timelineTime, engine, app, renderObjects, nullDeref, call>>

\* Lines 718 and 774-776: no render object is left, the handler returns.
FC_Return ==
    /\ fpc = "loop"
    /\ cur = Size(renderObjects)
    /\ fpc' = "idle"
    /\ UNCHANGED <<mesh, orig, vertices, duplicatesMap, hasDuplicates, newIndices,
                   uniqueVertices, uniqueNormals, vertexMap, pc, again, oob, todo>>
    /\ UNCHANGED <<m_lockTimeSystem, m_exportMeshes, timelineTime, engine, app,
                   renderObjects, cur, logged, mdd_files, nullDeref, call>>

\* The window at rest over a scene of at most MaxObjs render objects, no call
\* of removeDuplicates under way.
InitExport ==
    /\ mesh = NoGeometry
    /\ orig = NoGeometry
    /\ vertices = Filled(0, Invalid)
    /\ duplicatesMap = Filled(0, Invalid)
    /\ hasDuplicates = FALSE
    /\ newIndices = Filled(0, Invalid)
    /\ uniqueVertices = Filled(0, Invalid)
    /\ uniqueNormals = Filled(0, Invalid)
    /\ vertexMap = Filled(0, Invalid)
    /\ pc = "none"
    /\ again = FALSE
    /\ oob = FALSE
    /\ todo = {}
    /\ fpc = "idle"
    /\ m_lockTimeSystem = MemberInitial
    /\ m_exportMeshes = MemberInitial
    /\ timelineTime = 0
    /\ engine = [time |-> 0, startTime |-> 0, endTime |-> 0,
                 play |-> FALSE, forwardBackward |-> FALSE]
    /\ app = [updateAsked |-> FALSE, continuousUpdate |-> FALSE,
              playChecked |-> FALSE]
    /\ \E n \in 0 .. MaxObjs : renderObjects \in [Range0(n) -> RenderObjects]
    /\ cur = 0
    /\ logged = {}
    /\ mdd_files = {}
    /\ nullDeref = FALSE
    /\ call = NoCall

NextExport ==
    \/ exportMeshEveryFrame
    \/ FC_Enter
    \/ FC_Export
    \/ FC_Object
    \/ FD_Pair
    \/ FD_Sort
    \/ FD_Walk
    \/ RD_Compact
    \/ RD_Rewrite
    \/ RD_Fill
    \/ RD_Replace
    \/ FC_Save
    \/ FC_Return

SpecExport == InitExport /\ [][NextExport]_vars

(* ------------------------------------------------------------------------ *)
(* The time system: lines 702-707 of onFrameComplete, the timeline slots of *)
(* lines 804-838 (connected at lines 148-160) and on_actionStep_triggered,  *)
(* lines 799-802.                                                           *)
(* ------------------------------------------------------------------------ *)

Times == 0 .. MaxTime

\* Where a signal of the timeline can reach a slot: between two frames, when
\* the user handles the widget, and inside m_timeline->onChangeCursor.
SlotPoints == {"idle", "notify"}

\* Lines 799-802: the engine steps to another time, an update is asked for.
on_actionStep_triggered ==
    /\ fpc = "idle"
    /\ \E t \in Times \ {engine.time} : engine' = [engine EXCEPT !.time = t]
    /\ app' = [app EXCEPT !.updateAsked = TRUE]
    /\ call' = NoCall
    /\ UNCHANGED <<mesh, orig, vertices, duplicatesMap, hasDuplicates, newIndices,
                   uniqueVertices, uniqueNormals, vertexMap, pc, again, oob, todo>>
    /\ UNCHANGED <<fpc, m_lockTimeSystem, m_exportMeshes, timelineTime,
                   renderObjects, cur, logged, mdd_files, nullDeref>>

\* Line 705: the cursor of the timeline is set to the time of the engine;
\* the timeline may emit its signals before the call returns.
FC_Push ==
    /\ fpc = "push"
    /\ timelineTime' = engine.time
    /\ fpc' = "notify"
    /\ call' = NoCall
    /\ UNCHANGED <<mesh, orig, vertices, duplicatesMap, hasDuplicates, newIndices,
                   uniqueVertices, uniqueNormals, vertexMap, pc, again, oob, todo>>
    /\ UNCHANGED <<m_lockTimeSystem, m_exportMeshes, engine, app,
                   renderObjects, cur, logged, mdd_files, nullDeref>>

\* Line 706.
FC_Unlock ==
    /\ fpc = "notify"
    /\ m_lockTimeSystem' = FALSE
    /\ fpc' = "export"
    /\ call' = NoCall
    /\ UNCHANGED <<mesh, orig, vertices, duplicatesMap, hasDuplicates, newIndices,
                   uniqueVertices, uniqueNormals, vertexMap, pc, again, oob, todo>>
    /\ UNCHANGED <<m_exportMeshes, timelineTime, engine, app,
                   renderObjects, cur, logged, mdd_files, nullDeref>>

\* Lines 804-810.  The action is checked or unchecked whatever the lock is;
\* setChecked does not trigger on_actionPlay_triggered.
timelinePlay ==
    /\ fpc \in SlotPoints
    /\ \E play \in BOOLEAN :
          /\ call' = [slot |-> "timelinePlay", arg |-> play]
          /\ IF ~m_lockTimeSystem
             THEN /\ engine' = [engine EXCEPT !.play = play]
                  /\ app' = [app EXCEPT !.playChecked = play,
                                        !.continuousUpdate = play]
             ELSE /\ engine' = engine
                  /\ app' = [app EXCEPT !.playChecked = play]
    /\ UNCHANGED <<mesh, orig, vertices, duplicatesMap, hasDuplicates, newIndices,
                   uniqueVertices, uniqueNormals, vertexMap, pc, again, oob, todo>>
    /\ UNCHANGED <<fpc, m_lockTimeSystem, m_exportMeshes, timelineTime,
                   renderObjects, cur, logged, mdd_files, nullDeref>>

\* The slot without the test of the lock.
timelineGoTo_Unguarded ==
    /\ fpc \in SlotPoints
    /\ \E t \in Times :
          /\ call' = [slot |-> "timelineGoTo", arg |-> t]
          /\ engine' = [engine EXCEPT !.time = t]
          /\ app' = [app EXCEPT !.updateAsked = TRUE]
    /\ UNCHANGED <<mesh, orig, vertices, duplicatesMap, hasDuplicates, newIndices,
                   uniqueVertices, uniqueNormals, vertexMap, pc, again, oob, todo>>
    /\ UNCHANGED <<fpc, m_lockTimeSystem, m_exportMeshes, timelineTime,
                   renderObjects, cur, logged, mdd_files, nullDeref>>

\* Lines 812-817.
timelineGoTo ==
    /\ fpc \in SlotPoints
    /\ \E t \in Times :
          /\ call' = [slot |-> "timelineGoTo", arg |-> t]
          /\ IF ~m_lockTimeSystem
             THEN /\ engine' = [engine EXCEPT !.time = t]
                  /\ app' = [app EXCEPT !.updateAsked = TRUE]
             ELSE UNCHANGED <<engine, app>>
    /\ UNCHANGED <<mesh, orig, vertices, duplicatesMap, hasDuplicates, newIndices,
                   uniqueVertices, uniqueNormals, vertexMap, pc, again, oob, todo>>
    /\ UNCHANGED <<fpc, m_lockTimeSystem, m_exportMeshes, timelineTime,
                   renderObjects, cur, logged, mdd_files, nullDeref>>

\* Lines 819-824.
timelineStartChanged ==
    /\ fpc \in SlotPoints
    /\ \E t \in Times :
          /\ call' = [slot |-> "timelineStartChanged", arg |-> t]
          /\ IF ~m_lockTimeSystem
             THEN /\ engine' = [engine EXCEPT !.startTime = t]
                  /\ app' = [app EXCEPT !.updateAsked = TRUE]
             ELSE UNCHANGED <<engine, app>>
    /\ UNCHANGED <<mesh, orig, vertices, duplicatesMap, hasDuplicates, newIndices,
                   uniqueVertices, uniqueNormals, vertexMap, pc, again, oob, todo>>
    /\ UNCHANGED <<fpc, m_lockTimeSystem, m_exportMeshes, timelineTime,
                   renderObjects, cur, logged, mdd_files, nullDeref>>

\* Lines 826-831.
timelineEndChanged ==
    /\ fpc \in SlotPoints
    /\ \E t \in Times :
          /\ call' = [slot |-> "timelineEndChanged", arg |-> t]
          /\ IF ~m_lockTimeSystem
             THEN /\ engine' = [engine EXCEPT !.endTime = t]
                  /\ app' = [app EXCEPT !.updateAsked = TRUE]
             ELSE UNCHANGED <<engine, app>>
    /\ UNCHANGED <<mesh, orig, vertices, duplicatesMap, hasDuplicates, newIndices,
                   uniqueVertices, uniqueNormals, vertexMap, pc, again, oob, todo>>
    /\ UNCHANGED <<fpc, m_lockTimeSystem, m_exportMeshes, timelineTime,
                   renderObjects, cur, logged, mdd_files, nullDeref>>

\* Lines 833-838.
timelineSetPingPong ==
    /\ fpc \in SlotPoints
    /\ \E status \in BOOLEAN :
          /\ call' = [slot |-> "timelineSetPingPong", arg |-> status]
          /\ IF ~m_lockTimeSystem
             THEN /\ engine' = [engine EXCEPT !.forwardBackward = status]
                  /\ app' = [app EXCEPT !.updateAsked = TRUE]
             ELSE UNCHANGED <<engine, app>>
    /\ UNCHANGED <<mesh, orig, vertices, duplicatesMap, hasDuplicates, newIndices,
                   uniqueVertices, uniqueNormals, vertexMap, pc, again, oob, todo>>
    /\ UNCHANGED <<fpc, m_lockTimeSystem, m_exportMeshes, timelineTime,
                   renderObjects, cur, logged, mdd_files, nullDeref>>

\* The window at rest over an empty scene.
InitTime == InitExport /\ renderObjects = Filled(0, Invalid)

NextTime ==
    \/ on_actionStep_triggered
    \/ FC_Enter
    \/ FC_Push
    \/ FC_Unlock
    \/ FC_Export
    \/ timelinePlay
    \/ timelineGoTo
    \/ timelineStartChanged
    \/ timelineEndChanged
    \/ timelineSetPingPong

SpecTime == InitTime /\ [][NextTime]_vars

\* A triangle of the mesh at entry has an index that is no vertex.
HasBadIndex ==
    \E t \in DOMAIN orig.indices : \E j \in 1 .. 3 :
        ~ULt(orig.indices[t][j], ToUint(Size(orig.vertices)))

\* The mesh at entry has not as many normals as vertices.
NormalsMismatch == Size(orig.normals) # Size(orig.vertices)

\* C12: when a triangle of the input has an index >= the vertex count,
\* removeDuplicates fails fast: it reads neither the duplicate map nor the
\* new-index table out of bounds, writes no garbage index into the mesh and
\* does not return as from a valid mesh.
C12_BadIndexFailsFast ==
    (HasBadIndex /\ ~NormalsMismatch) =>
        /\ ~oob
        /\ mesh.indices = orig.indices
        /\ pc # "done"

\* C13: when the input has normals.length # vertices.length, removeDuplicates
\* fails fast: it does not read normals out of range, does not return with
\* the surplus normals silently dropped, and never yields a mesh whose
\* normal array and vertex array differ in length.
C13_NormalsMismatchFailsFast ==
    (NormalsMismatch /\ ~HasBadIndex) =>
        /\ ~oob
        /\ pc # "done"
        /\ Done => Size(mesh.normals) = Size(mesh.vertices)

\* The value every entry of the duplicate map has once the walk is over, and
\* the new-index table the compaction scan ends with.
FinalDuplicatesMap == [i \in OrigIdx |-> FirstOf(i)]

FinalNewIndices ==
    [i \in OrigIdx |->
        IF FirstOf(i) = i
        THEN Cardinality({k \in OrigIdx : k < i /\ FirstOf(k) = k})
        ELSE Invalid]

\* C15: the phases run in pipeline order with a barrier between them: when
\* the sort starts every pair of the pairing loop is written; while a worker
\* of the triangle loop or of the vertexMap loop can run, the walk and the
\* compaction scan are over (duplicatesMap and newIndices hold their final
\* values); the mesh keeps its vertex and normal arrays until both loops are
\* over, every triangle rewritten and every vertexMap entry filled.
C15_PhasesInPipelineOrder ==
    Size(orig.vertices) >= 1 =>
        /\ pc = "sort" =>
              /\ todo = {}
              /\ \A i \in OrigIdx :
                    vertices[i] = [first |-> orig.vertices[i], second |-> i]
        /\ pc \in {"rewriting", "fill", "filling"} =>
              /\ duplicatesMap = FinalDuplicatesMap
              /\ newIndices = FinalNewIndices
              /\ Size(uniqueVertices) = Cardinality(Representatives)
        /\ pc \in {"fill", "filling"} =>
              \A t \in DOMAIN mesh.indices : \A j \in 1 .. 3 :
                  mesh.indices[t][j] =
                      FinalNewIndices[FinalDuplicatesMap[orig.indices[t][j]]]
        /\ pc # "done" =>
              /\ mesh.vertices = orig.vertices
              /\ mesh.normals = orig.normals
        /\ pc \in {"replace", "done"} =>
              /\ todo = {}
              /\ \A t \in DOMAIN mesh.indices : \A j \in 1 .. 3 :
                    mesh.indices[t][j] =
                        FinalNewIndices[FinalDuplicatesMap[orig.indices[t][j]]]
              /\ \A i \in OrigIdx :
                    vertexMap[i] = FinalNewIndices[FinalDuplicatesMap[i]]

\* Some worker of the vertexMap loop has run and another has not, on a mesh
\* with a triangle and a duplicated vertex, chained and compacted before.
C15_Witness ==
    /\ pc = "filling"
    /\ todo # {}
    /\ todo # OrigIdx
    /\ Size(orig.indices) >= 1
    /\ Cardinality(Representatives) < Size(orig.vertices)

\* An element some other iteration may have written: what it holds must not
\* matter.
JunkPair == [first |-> <<One, One, One>>, second |-> Invalid]
JunkTriangle == <<Invalid, Invalid, Invalid>>

\* C16: in each parallel loop two distinct iterations neither write the same
\* element nor read an element the other writes, so that whatever the order
\* in which the workers run them, the pairs, the rewritten triangles and the
\* vertexMap at the end of the loop are those of the sequential loop.
C16_LoopsRaceFree ==
    Size(orig.vertices) >= 1 =>
        /\ pc = "pairing" =>
              \A i, j \in todo : i # j =>
                  /\ PairIter(vertices, mesh, j)[i] = vertices[i]
                  /\ PairIter([vertices EXCEPT ![i] = JunkPair], mesh, j)[j]
                        = PairIter(vertices, mesh, j)[j]
        /\ pc = "sort" =>
              vertices = PairLoop(Filled(Size(orig.vertices),
                                         [first |-> Invalid, second |-> Invalid]),
                                  orig, 0, Size(orig.vertices))
        /\ pc = "rewriting" =>
              \A t, u \in todo : t # u =>
                  /\ RewriteIter(mesh.indices, duplicatesMap, newIndices, u)[t]
                        = mesh.indices[t]
                  /\ RewriteIter([mesh.indices EXCEPT ![t] = JunkTriangle],
                                 duplicatesMap, newIndices, u)[u]
                        = RewriteIter(mesh.indices, duplicatesMap, newIndices, u)[u]
        /\ pc = "fill" =>
              mesh.indices = RewriteLoop(orig.indices, duplicatesMap, newIndices,
                                         0, Size(orig.indices))
        /\ pc = "filling" =>
              \A i, j \in todo : i # j =>
                  /\ FillIter(vertexMap, duplicatesMap, newIndices, j)[i]
                        = vertexMap[i]
                  /\ FillIter([vertexMap EXCEPT ![i] = Invalid],
                              duplicatesMap, newIndices, j)[j]
                        = FillIter(vertexMap, duplicatesMap, newIndices, j)[j]
        /\ pc \in {"replace", "done"} =>
              /\ vertexMap = FillLoop(Filled(Size(orig.vertices), Invalid),
                                      duplicatesMap, newIndices,
                                      0, Size(orig.vertices))
              /\ duplicatesMap = FinalDuplicatesMap

\* The call has returned from a mesh with a triangle and a duplicated vertex,
\* its loops run in some order.
C16_Witness ==
    /\ pc = "done"
    /\ Size(orig.vertices) >= 2
    /\ Size(orig.indices) >= 1
    /\ Size(mesh.vertices) < Size(orig.vertices)

\* C19: with per-frame export on, a render object that passes the name
\* filter and has no Mesh is logged as such and left alone: no null pointer
\* is dereferenced, removeDuplicates is not entered for it, obj.save logs
\* nothing about it, and no point cache file is made for it.
C19_NullMeshNotDereferenced ==
    /\ ~nullDeref
    /\ \A k \in DOMAIN renderObjects :
          (renderObjects[k].passes /\ ~renderObjects[k].hasMesh) =>
              /\ ~(cur = k /\ fpc \in {"dedup", "fault"})
              /\ (fpc = "loop" /\ cur > k) => <<"no mesh", k>> \in logged
              /\ <<"exported", k>> \notin logged
              /\ <<"failed to export", k>> \notin logged
              /\ k \notin mdd_files

\* The lock is held exactly from line 704 to line 706.
LockOnlyWhilePushing == m_lockTimeSystem <=> fpc \in {"push", "notify"}

\* A step taken under the lock leaves the engine as it is and asks for no
\* update, continuous or not.
LockedSlotsInert ==
    m_lockTimeSystem =>
        /\ engine' = engine
        /\ app'.updateAsked = app.updateAsked
        /\ app'.continuousUpdate = app.continuousUpdate

\* A slot entered without the lock hands its value to the engine.
UnlockedSlotsForward ==
    (~m_lockTimeSystem /\ call'.slot # "none") =>
        /\ call'.slot = "timelinePlay" =>
              /\ engine'.play = call'.arg
              /\ app'.continuousUpdate = call'.arg
        /\ call'.slot = "timelineGoTo" =>
              engine'.time = call'.arg /\ app'.updateAsked
        /\ call'.slot = "timelineStartChanged" =>
              engine'.startTime = call'.arg /\ app'.updateAsked
        /\ call'.slot = "timelineEndChanged" =>
              engine'.endTime = call'.arg /\ app'.updateAsked
        /\ call'.slot = "timelineSetPingPong" =>
              engine'.forwardBackward = call'.arg /\ app'.updateAsked

\* C20: m_lockTimeSystem is true only while onFrameComplete pushes the time
\* of the engine into the timeline and false whenever the handler is left;
\* under the lock the five timeline slots change nothing of the engine and
\* ask for no update; without it each hands its value to the engine.
C20_TimeSystemLock ==
    /\ []LockOnlyWhilePushing
    /\ [][LockedSlotsInert /\ UnlockedSlotsForward]_vars

\* timelineGoTo has run inside onChangeCursor with a time that is not the
\* engine's, and the engine has kept its own.
C20_Witness ==
    /\ m_lockTimeSystem
    /\ fpc = "notify"
    /\ call.slot = "timelineGoTo"
    /\ call.arg # engine.time

====
